---- MODULE Spec2Model ----
(***************************************************************************)
(* A model of bank.py: the Account hierarchy (Account, SavingsAccount,     *)
(* CheckingAccount), the Bank store with its snapshot file bank_data.json, *)
(* and the commands of main() that drive them.                             *)
(*                                                                         *)
(* Representation.                                                         *)
(*  - Text is a sequence of one-character strings; Python's None is the    *)
(*    value None below, which no text equals.                              *)
(*  - A Python dict is a function whose DOMAIN is the set of keys present, *)
(*    so data.get(k, d) is Get(data, k, d).                                *)
(*  - An account object is a record: cls is its Python class, the other    *)
(*    fields are the attributes _name, _balance, ... without the leading   *)
(*    underscore.                                                          *)
(*  - Amounts are integers (finite numbers); account numbers are the       *)
(*    integers whose decimal text str() produces, used as dict keys.       *)
(*  - json.dump followed by json.load returns the dict it was given for    *)
(*    the values stored here (str keys, numbers, text, None, lists), so    *)
(*    the snapshot file holds the dict save_data built.                    *)
(*  - last is the command main() ran last, with its result; notified      *)
(*    counts the calls of send_account_details made so far.                *)
(*  - args holds the arguments of the create_account call just made, where *)
(*    a specification records them; other is the store of a second         *)
(*    process running main() beside the first on the same bank_data.json.  *)
(***************************************************************************)
EXTENDS Integers, Sequences, FiniteSets, TLC

VARIABLES accounts, file, last, notified, args, other

vars == <<accounts, file, last, notified, args, other>>

----------------------------------------------------------------------------
(* Bounds and input domains *)

\* total number of ledger entries the store may hold
MaxEntries == 3

\* the values random.randint(1000000000, 9999999999) is sampled from here
AccountNumbers == {1000000000, 1000000001}

None == <<"None">>

Txt_Ann == <<"A", "n", "n">>
Txt_Empty == <<>>
Email_a == <<"a", "@", "b", ".", "c">>
Email_b == <<"b", "_", "1", "@", "b", "-", "c", ".", "c", ".", "d">>
Email_noAt == <<"a", "b", ".", "c">>
Txt_Street == <<"1", " ", "E", "l", "m">>
Txt_Postal == <<"0", "1", "5", "0">>
Txt_City == <<"O", "s", "l", "o">>
Txt_Country == <<"N", "o", "r">>

Names == {Txt_Ann, Txt_Empty}
Emails == {Email_a, Email_b, Email_noAt, Txt_Empty}
AccountTypes == {"Savings", "Checking", "Business"}
InitialBalances == {-10, 0, 100}
Addresses == {<<Txt_Street, Txt_Postal, Txt_City, Txt_Country>>}
DepositAmounts == {-5, 0, 150}
WithdrawAmounts == {0, 60, 100, 101, 150}
\* what datetime.now().strftime("%Y-%m-%d %H:%M") returns
Timestamps == {"2024-05-01 10:00"}

\* what the operator types at the prompts of update_account_details, before
\* strip(): emails is the sequence of answers to the repeated email prompt
Txt_Bo == <<" ", "B", "o", " ">>
Txt_Postal2 == <<"0", "1", "5", "1", " ">>
Txt_Short == <<"N", "o">>
Txt_Street2 == <<"2", " ", "O", "a", "k">>
Txt_City2 == <<"R", "o", "m">>
Txt_NoPadded == <<" ", "N", "o", " ">>
UpdateInputs ==
    {[name |-> Txt_Empty, emails |-> <<Txt_Empty>>, street_address |-> Txt_Empty,
      postal_code |-> Txt_Empty, city |-> Txt_Empty, country |-> Txt_Empty],
     [name |-> Txt_Bo, emails |-> <<Email_noAt, Email_b, Txt_Empty>>,
      street_address |-> Txt_Short, postal_code |-> Txt_Postal2,
      city |-> Txt_Empty, country |-> Txt_Short]}

\* further answers: fields of exactly the least accepted length beside
\* fields too short, and an email another account may hold
Txt_Elm == <<"E", "l", "m", "1">>
Txt_Postal3 == <<"0", "1", "5">>
UpdateInputsWide ==
    UpdateInputs \cup
    {[name |-> Txt_Empty, emails |-> <<Email_a, Txt_Empty>>,
      street_address |-> Txt_Street2, postal_code |-> Txt_Short,
      city |-> Txt_City2, country |-> Txt_NoPadded],
     [name |-> Txt_Ann, emails |-> <<Email_b, Email_noAt, Email_a>>,
      street_address |-> Txt_Elm, postal_code |-> Txt_Postal3,
      city |-> Txt_Short, country |-> Txt_Empty]}

----------------------------------------------------------------------------
(* dict.get *)

Get(data, k, default) == IF k \in DOMAIN data THEN data[k] ELSE default

----------------------------------------------------------------------------
(* The email pattern ^[a-zA-Z0-9_.+-]+@[a-zA-Z0-9-]+\.[a-zA-Z0-9-.]+$ *)

AlnumChars == {"a", "b", "c", "d", "l", "m", "n", "o", "r", "s",
               "A", "E", "N", "O", "0", "1", "5"}
LocalChars == AlnumChars \cup {"_", ".", "+", "-"}
DomainChars == AlnumChars \cup {"-"}
TldChars == AlnumChars \cup {"-", "."}

AllIn(s, lo, hi, chars) == \A i \in lo..hi : s[i] \in chars

\* re.match(email_pattern, email): some '@' at position i and some '.' at
\* position j split the text into the three non-empty character runs.
EmailMatches(email) ==
    \E i \in 1..Len(email) : \E j \in 1..Len(email) :
        /\ email[i] = "@"
        /\ email[j] = "."
        /\ 1 < i
        /\ i + 1 < j
        /\ j < Len(email)
        /\ AllIn(email, 1, i - 1, LocalChars)
        /\ AllIn(email, i + 1, j - 1, DomainChars)
        /\ AllIn(email, j + 1, Len(email), TldChars)

----------------------------------------------------------------------------
(* Account *)

WITHDRAWAL_LIMIT == 100

create_timestamped_entry(ts, action, amount, running_balance) ==
    [timestamp |-> ts,
     action |-> action,
     amount |-> amount,
     running_balance |-> running_balance,
     details |-> <<action, ": $", amount>>]

\* Account.__init__, reached through the constructor of class cls
AccountInit(cls, ts, name, account_number, email, initial_balance, account_type, street_address, postal_code, city, country) ==
    [cls |-> cls,
     name |-> name,
     account_number |-> account_number,
     email |-> email,
     balance |-> initial_balance,
     account_type |-> account_type,
     street_address |-> street_address,
     postal_code |-> postal_code,
     city |-> city,
     country |-> country,
     transactions |->
        <<create_timestamped_entry(ts, "Account created with balance",
                                   initial_balance, initial_balance)>>]

SavingsAccountInit(ts, name, account_number, email, initial_balance, street_address, postal_code, city, country) ==
    AccountInit("SavingsAccount", ts, name, account_number, email, initial_balance,
                "Savings", street_address, postal_code, city, country)

CheckingAccountInit(ts, name, account_number, email, initial_balance, street_address, postal_code, city, country) ==
    AccountInit("CheckingAccount", ts, name, account_number, email, initial_balance,
                "Checking", street_address, postal_code, city, country)

\* Each method returns [acc |-> the object afterwards, ret |-> what it returned].

\* deposit with the entry built before the balance is raised
deposit_StaleRunningBalance(acc, ts, amount) ==
    IF amount > 0
    THEN [acc |-> [acc EXCEPT !.balance = @ + amount,
                              !.transactions =
                                  Append(@, create_timestamped_entry(ts, "Deposit", amount,
                                                                     acc.balance))],
          ret |-> "True"]
    ELSE [acc |-> acc, ret |-> "False"]

\* deposit with the test amount >= 0
deposit_AcceptsZero(acc, ts, amount) ==
    IF amount >= 0
    THEN LET bal == acc.balance + amount IN
         [acc |-> [acc EXCEPT !.balance = bal,
                              !.transactions =
                                  Append(@, create_timestamped_entry(ts, "Deposit", amount, bal))],
          ret |-> "True"]
    ELSE [acc |-> acc, ret |-> "False"]

\* deposit putting the new entry at the head of the log
deposit_NewestFirst(acc, ts, amount) ==
    IF amount > 0
    THEN LET bal == acc.balance + amount IN
         [acc |-> [acc EXCEPT !.balance = bal,
                              !.transactions =
                                  <<create_timestamped_entry(ts, "Deposit", amount, bal)>> \o @],
          ret |-> "True"]
    ELSE [acc |-> acc, ret |-> "False"]

deposit(acc, ts, amount) ==
    IF amount > 0
    THEN LET bal == acc.balance + amount IN
         [acc |-> [acc EXCEPT !.balance = bal,
                              !.transactions =
                                  Append(@, create_timestamped_entry(ts, "Deposit", amount, bal))],
          ret |-> "True"]
    ELSE [acc |-> acc, ret |-> "False"]

WithdrawalEntry(ts, amount, running_balance) ==
    [timestamp |-> ts,
     action |-> "Withdrawal",
     amount |-> amount,
     running_balance |-> running_balance,
     details |-> <<"Withdrawal", ": $", amount>>]

AccountWithdraw(acc, ts, amount) ==
    [acc |-> acc, ret |-> "NotImplementedError"]

\* SavingsAccount.withdraw without the WITHDRAWAL_LIMIT test
SavingsWithdraw_NoLimit(acc, ts, amount) ==
    IF amount > 0 /\ amount <= acc.balance
    THEN LET bal == acc.balance - amount IN
         [acc |-> [acc EXCEPT !.balance = bal,
                              !.transactions =
                                  Append(@, WithdrawalEntry(ts, amount, bal))],
          ret |-> "True"]
    ELSE [acc |-> acc, ret |-> "False"]

\* SavingsAccount.withdraw without the test amount <= self._balance
SavingsWithdraw_NoFundsCheck(acc, ts, amount) ==
    IF amount > WITHDRAWAL_LIMIT
    THEN [acc |-> acc, ret |-> "False"]
    ELSE IF amount > 0
         THEN LET bal == acc.balance - amount IN
              [acc |-> [acc EXCEPT !.balance = bal,
                                   !.transactions =
                                       Append(@, WithdrawalEntry(ts, amount, bal))],
               ret |-> "True"]
         ELSE [acc |-> acc, ret |-> "False"]

\* SavingsAccount.withdraw refusing the ceiling itself
SavingsWithdraw_LimitExcluded(acc, ts, amount) ==
    IF amount >= WITHDRAWAL_LIMIT
    THEN [acc |-> acc, ret |-> "False"]
    ELSE IF amount > 0 /\ amount <= acc.balance
         THEN LET bal == acc.balance - amount IN
              [acc |-> [acc EXCEPT !.balance = bal,
                                   !.transactions =
                                       Append(@, WithdrawalEntry(ts, amount, bal))],
               ret |-> "True"]
         ELSE [acc |-> acc, ret |-> "False"]

SavingsWithdraw(acc, ts, amount) ==
    IF amount > WITHDRAWAL_LIMIT
    THEN [acc |-> acc, ret |-> "False"]
    ELSE IF amount > 0 /\ amount <= acc.balance
         THEN LET bal == acc.balance - amount IN
              [acc |-> [acc EXCEPT !.balance = bal,
                                   !.transactions =
                                       Append(@, WithdrawalEntry(ts, amount, bal))],
               ret |-> "True"]
         ELSE [acc |-> acc, ret |-> "False"]

\* CheckingAccount.withdraw with the entry built before the balance is lowered
CheckingWithdraw_StaleRunningBalance(acc, ts, amount) ==
    IF amount > 0 /\ amount <= acc.balance
    THEN [acc |-> [acc EXCEPT !.balance = @ - amount,
                              !.transactions =
                                  Append(@, WithdrawalEntry(ts, amount, acc.balance))],
          ret |-> "True"]
    ELSE [acc |-> acc, ret |-> "False"]

\* CheckingAccount.withdraw with the test amount < self._balance
CheckingWithdraw_StrictBalance(acc, ts, amount) ==
    IF amount > 0 /\ amount < acc.balance
    THEN LET bal == acc.balance - amount IN
         [acc |-> [acc EXCEPT !.balance = bal,
                              !.transactions =
                                  Append(@, WithdrawalEntry(ts, amount, bal))],
          ret |-> "True"]
    ELSE [acc |-> acc, ret |-> "False"]

CheckingWithdraw(acc, ts, amount) ==
    IF amount > 0 /\ amount <= acc.balance
    THEN LET bal == acc.balance - amount IN
         [acc |-> [acc EXCEPT !.balance = bal,
                              !.transactions =
                                  Append(@, WithdrawalEntry(ts, amount, bal))],
          ret |-> "True"]
    ELSE [acc |-> acc, ret |-> "False"]

\* method resolution of account.withdraw(amount) on the object's class
withdraw(acc, ts, amount) ==
    CASE acc.cls = "SavingsAccount" -> SavingsWithdraw(acc, ts, amount)
      [] acc.cls = "CheckingAccount" -> CheckingWithdraw(acc, ts, amount)
      [] OTHER -> AccountWithdraw(acc, ts, amount)

to_dict(acc) ==
    [name |-> acc.name,
     account_number |-> acc.account_number,
     email |-> acc.email,
     balance |-> acc.balance,
     account_type |-> acc.account_type,
     street_address |-> acc.street_address,
     postal_code |-> acc.postal_code,
     city |-> acc.city,
     country |-> acc.country,
     transactions |-> acc.transactions]

\* The constructor appends a creation entry stamped ts; from_dict then
\* replaces the whole list by the record's transactions.
SavingsFromDict(data, ts) ==
    [SavingsAccountInit(ts, Get(data, "name", None), Get(data, "account_number", None),
                        Get(data, "email", None), Get(data, "balance", 0),
                        Get(data, "street_address", None), Get(data, "postal_code", None),
                        Get(data, "city", None), Get(data, "country", None))
        EXCEPT !.transactions = Get(data, "transactions", <<>>)]

\* CheckingAccount.from_dict without the assignment to account._transactions
CheckingFromDict_KeepsCreationEntry(data, ts) ==
    CheckingAccountInit(ts, Get(data, "name", None), Get(data, "account_number", None),
                        Get(data, "email", None), Get(data, "balance", 0),
                        Get(data, "street_address", None), Get(data, "postal_code", None),
                        Get(data, "city", None), Get(data, "country", None))

CheckingFromDict(data, ts) ==
    [CheckingAccountInit(ts, Get(data, "name", None), Get(data, "account_number", None),
                         Get(data, "email", None), Get(data, "balance", 0),
                         Get(data, "street_address", None), Get(data, "postal_code", None),
                         Get(data, "city", None), Get(data, "country", None))
        EXCEPT !.transactions = Get(data, "transactions", <<>>)]

from_dict(data, ts) ==
    IF "account_type" \in DOMAIN data /\ data.account_type = "Savings"
    THEN SavingsFromDict(data, ts)
    ELSE IF "account_type" \in DOMAIN data /\ data.account_type = "Checking"
    THEN CheckingFromDict(data, ts)
    ELSE [AccountInit("Account", ts, Get(data, "name", None),
                      Get(data, "account_number", None), Get(data, "email", None),
                      Get(data, "balance", 0), Get(data, "account_type", "Savings"),
                      Get(data, "street_address", None), Get(data, "postal_code", None),
                      Get(data, "city", None), Get(data, "country", None))
            EXCEPT !.transactions = Get(data, "transactions", <<>>)]

\* An entry in the old format has the keys timestamp and details only; its
\* details is <<text, " $", amount>>, the description up to the sign "$"
\* as a sequence of words and the number that follows the sign.

\* phrase in text, for texts that are sequences of words
HasPhrase(text, phrase) ==
    \E i \in 1..(Len(text) - Len(phrase) + 1) :
        SubSeq(text, i, i + Len(phrase) - 1) = phrase

\* f"${x:.2f}" and f"-${x:.2f}"
Money(x) == <<"$", x>>
MinusMoney(x) == <<"-$", x>>

\* float(text.replace('$', '')) of a text Money wrote
MoneyValue(text) == text[2]

\* the loop of show_transaction_history computing the balance of an
\* old-format deposit or withdrawal from its own amount alone
RECURSIVE HistoryRows_NoCarry(_, _, _, _)
HistoryRows_NoCarry(log, i, carry, rows) ==
    IF i > Len(log) THEN [ret |-> "shown", rows |-> rows]
    ELSE LET trans == log[i]
             timestamp == Get(trans, "timestamp", "")
             details == Get(trans, "details", <<<<>>, "", 0>>)
             now ==
                 IF "action" \notin DOMAIN trans
                 THEN IF HasPhrase(details[1], <<"Account", "created", "with", "balance">>)
                      THEN [bound |-> TRUE, action |-> "Account created",
                            amount |-> details[3], running_balance |-> details[3]]
                      ELSE IF HasPhrase(details[1], <<"Deposited">>)
                      THEN [bound |-> TRUE, action |-> "Deposit", amount |-> details[3],
                            running_balance |-> details[3]]
                      ELSE IF HasPhrase(details[1], <<"Withdrew">>)
                      THEN [bound |-> TRUE, action |-> "Withdrawal", amount |-> details[3],
                            running_balance |-> 0 - details[3]]
                      ELSE carry
                 ELSE [bound |-> TRUE, action |-> trans.action, amount |-> trans.amount,
                       running_balance |->
                           Get(trans, "running_balance", carry.running_balance)]
         IN
         IF ~now.bound THEN [ret |-> "UnboundLocalError", rows |-> rows]
         ELSE HistoryRows_NoCarry(log, i + 1, now,
                  Append(rows,
                      [timestamp |-> timestamp,
                       action |-> now.action,
                       amount |-> IF now.action = "Withdrawal"
                                  THEN MinusMoney(now.amount) ELSE Money(now.amount),
                       balance |-> Money(now.running_balance)]))

\* The loop of show_transaction_history from entry i on. carry holds the
\* locals action, amount and running_balance as the previous iterations
\* left them; bound tells whether action and amount have been assigned.
RECURSIVE HistoryRows(_, _, _, _)
HistoryRows(log, i, carry, rows) ==
    IF i > Len(log) THEN [ret |-> "shown", rows |-> rows]
    ELSE LET trans == log[i]
             timestamp == Get(trans, "timestamp", "")
             details == Get(trans, "details", <<<<>>, "", 0>>)
             now ==
                 IF "action" \notin DOMAIN trans
                 THEN IF HasPhrase(details[1], <<"Account", "created", "with", "balance">>)
                      THEN [bound |-> TRUE, action |-> "Account created",
                            amount |-> details[3], running_balance |-> details[3]]
                      ELSE IF HasPhrase(details[1], <<"Deposited">>)
                      THEN [bound |-> TRUE, action |-> "Deposit", amount |-> details[3],
                            running_balance |-> carry.running_balance + details[3]]
                      ELSE IF HasPhrase(details[1], <<"Withdrew">>)
                      THEN [bound |-> TRUE, action |-> "Withdrawal", amount |-> details[3],
                            running_balance |-> carry.running_balance - details[3]]
                      ELSE carry
                 ELSE [bound |-> TRUE, action |-> trans.action, amount |-> trans.amount,
                       running_balance |->
                           Get(trans, "running_balance", carry.running_balance)]
         IN
         IF ~now.bound THEN [ret |-> "UnboundLocalError", rows |-> rows]
         ELSE HistoryRows(log, i + 1, now,
                  Append(rows,
                      [timestamp |-> timestamp,
                       action |-> now.action,
                       amount |-> IF now.action = "Withdrawal"
                                  THEN MinusMoney(now.amount) ELSE Money(now.amount),
                       balance |-> Money(now.running_balance)]))

\* show_transaction_history counting the creation entry as a transaction
show_transaction_history_CountsCreation(acc) ==
    IF acc.transactions = <<>>
    THEN [ret |-> "No transactions to display.", out |-> <<>>]
    ELSE LET r == HistoryRows(acc.transactions, 1,
                      [bound |-> FALSE, action |-> "", amount |-> 0,
                       running_balance |-> 0], <<>>)
         IN
         IF r.ret # "shown" THEN [ret |-> r.ret, out |-> <<>>]
         ELSE [ret |-> "shown",
               out |-> [rows |-> r.rows,
                        opening |-> MoneyValue(r.rows[1].balance),
                        closing |-> acc.balance,
                        total |-> Len(acc.transactions)]]

\* Account.show_transaction_history: what it prints, or the exception that
\* leaves it
show_transaction_history(acc) ==
    IF acc.transactions = <<>>
    THEN [ret |-> "No transactions to display.", out |-> <<>>]
    ELSE LET r == HistoryRows(acc.transactions, 1,
                      [bound |-> FALSE, action |-> "", amount |-> 0,
                       running_balance |-> 0], <<>>)
         IN
         IF r.ret # "shown" THEN [ret |-> r.ret, out |-> <<>>]
         ELSE [ret |-> "shown",
               out |-> [rows |-> r.rows,
                        opening |-> MoneyValue(r.rows[1].balance),
                        closing |-> acc.balance,
                        total |-> Len(acc.transactions) - 1]]

----------------------------------------------------------------------------
(* Bank *)

\* what save_data writes to bank_data.json
save_data(accts) ==
    [state |-> "mapping", data |-> [n \in DOMAIN accts |-> to_dict(accts[n])]]

\* generate_account_number returning its first draw
generate_account_number_NoRetry(accts) == AccountNumbers

\* the values the retry loop of generate_account_number can return
generate_account_number(accts) == {n \in AccountNumbers : n \notin DOMAIN accts}

\* What bank_data.json can hold, by the field state of the file:
\*   "absent"   there is no file
\*   "mapping"  a JSON object of account records, given in data
\*   "blank"    a file of zero bytes
\*   "garbage"  text that json.load cannot parse
\*   "null"     JSON that parses to a false value: null, [], 0, ""
\*   "array"    JSON that parses to a non-empty list, such as [1]
\*   "numbers"  a JSON object whose values are numbers, such as {"1": 5}
\* data is <<>> for every state but "mapping".

\* the line load_data prints, or the exception that leaves it
load_data_ret(f) ==
    CASE f.state = "absent" -> "No existing data found, starting fresh."
      [] f.state \in {"blank", "garbage"} ->
             "Error reading the bank_data.json file. Starting fresh."
      [] f.state = "null" -> "The bank_data.json file is empty. Starting fresh."
      [] f.state = "mapping" ->
             IF DOMAIN f.data # {} THEN "Data loaded successfully!"
             ELSE "The bank_data.json file is empty. Starting fresh."
      [] f.state \in {"array", "numbers"} -> "AttributeError"

\* the store a new Bank() holds after load_data has read snapshot f
load_data(f, ts) ==
    IF f.state = "mapping" /\ DOMAIN f.data # {}
    THEN [n \in DOMAIN f.data |-> from_dict(f.data[n], ts)]
    ELSE <<>>

RECURSIVE SumEntries(_, _)
SumEntries(accts, keys) ==
    IF keys = {} THEN 0
    ELSE LET k == CHOOSE k \in keys : TRUE IN
         Len(accts[k].transactions) + SumEntries(accts, keys \ {k})

TotalEntries(accts) == SumEntries(accts, DOMAIN accts)

\* the command just run: its name, the account and amount it was given and
\* its result; mail is the outcome of the notification it sent, in what the
\* operator typed at its prompts, out the report it printed
Cmd(op, acc, amount, ret) ==
    [op |-> op, acc |-> acc, amount |-> amount, ret |-> ret,
     mail |-> "none", in |-> <<>>, out |-> <<>>]

NoOp == Cmd("start", 0, 0, "None")

Init ==
    /\ accounts = <<>>
    /\ file = [state |-> "absent", data |-> <<>>]
    /\ last = NoOp
    /\ notified = 0
    /\ args = <<>>
    /\ other = <<>>

\* An exception other than ValueError leaves main(): the process is gone
\* until it is started again.
Exceptions == {"NotImplementedError", "AttributeError", "UnboundLocalError"}

Alive == last.ret \notin Exceptions

\* create_account without the test initial_balance < 0
CreateAccountError_NoNegativeCheck(accts, name, email, account_type, initial_balance) ==
    IF ~EmailMatches(email) THEN "Invalid email format"
    ELSE IF \E n \in DOMAIN accts : to_dict(accts[n]).email = email
    THEN "Email already exists"
    ELSE IF name = <<>> \/ email = <<>> THEN "Name and email cannot be empty"
    ELSE IF account_type \notin {"Checking", "Savings"} THEN "Bad account type"
    ELSE ""

\* create_account testing the account type before the initial balance
CreateAccountError_KindBeforeBalance(accts, name, email, account_type, initial_balance) ==
    IF ~EmailMatches(email) THEN "Invalid email format"
    ELSE IF \E n \in DOMAIN accts : to_dict(accts[n]).email = email
    THEN "Email already exists"
    ELSE IF name = <<>> \/ email = <<>> THEN "Name and email cannot be empty"
    ELSE IF account_type \notin {"Checking", "Savings"} THEN "Bad account type"
    ELSE IF initial_balance < 0 THEN "Initial balance cannot be negative"
    ELSE ""

\* the message create_account prints when a validation rejects the input,
\* "" when all pass (its result is None on every path)
CreateAccountError(accts, name, email, account_type, initial_balance) ==
    IF ~EmailMatches(email) THEN "Invalid email format"
    ELSE IF \E n \in DOMAIN accts : to_dict(accts[n]).email = email
    THEN "Email already exists"
    ELSE IF name = <<>> \/ email = <<>> THEN "Name and email cannot be empty"
    ELSE IF initial_balance < 0 THEN "Initial balance cannot be negative"
    ELSE IF account_type \notin {"Checking", "Savings"} THEN "Bad account type"
    ELSE ""

\* the account create_account constructs once account_number is allocated
NewAccount(ts, name, account_number, email, account_type, initial_balance, addr) ==
    IF account_type = "Checking"
    THEN CheckingAccountInit(ts, name, account_number, email, initial_balance,
                             addr[1], addr[2], addr[3], addr[4])
    ELSE SavingsAccountInit(ts, name, account_number, email, initial_balance,
                            addr[1], addr[2], addr[3], addr[4])

\* self.accounts[account_number] = new_account
StoreAccount(accts, account_number, new_account) ==
    [n \in DOMAIN accts \cup {account_number} |->
        IF n = account_number THEN new_account ELSE accts[n]]

\* what the SMTP conversation of send_account_details can do: complete, or
\* raise (no server, refused login, rejected recipient)
SmtpOutcomes == {"ok", "SMTPException"}

\* send_account_details without its try/except
send_account_details_Raises(smtp) ==
    IF smtp = "ok" THEN "sent" ELSE "SMTPException"

\* Bank.send_account_details: the line it prints, "Account details email
\* sent" or "Failed to send email"; it returns None either way
send_account_details(smtp) ==
    IF smtp = "ok" THEN "sent" ELSE "failed"

\* create_account testing initial_balance < 0 only once the account is stored
create_account_ChecksBalanceLate(name, email, account_type, initial_balance, addr) ==
    LET err == CreateAccountError(accounts, name, email, account_type, initial_balance) IN
    IF err # "" /\ err # "Initial balance cannot be negative"
    THEN /\ last' = Cmd("create_account", 0, 0, err)
         /\ UNCHANGED <<accounts, file, notified>>
    ELSE /\ TotalEntries(accounts) < MaxEntries
         /\ \E account_number \in generate_account_number(accounts), ts \in Timestamps :
              LET accts == StoreAccount(accounts, account_number,
                               NewAccount(ts, name, account_number, email,
                                          account_type, initial_balance, addr))
              IN
              /\ accounts' = accts
              /\ file' = save_data(accts)
              /\ last' = Cmd("create_account", 0, 0, err)
              /\ UNCHANGED notified

\* Bank.create_account
create_account(name, email, account_type, initial_balance, addr) ==
    LET err == CreateAccountError(accounts, name, email, account_type, initial_balance) IN
    IF err # ""
    THEN /\ last' = Cmd("create_account", 0, 0, err)
         /\ UNCHANGED <<accounts, file, notified>>
    ELSE /\ TotalEntries(accounts) < MaxEntries
         /\ \E account_number \in generate_account_number(accounts), ts \in Timestamps,
                smtp \in SmtpOutcomes :
              LET accts == StoreAccount(accounts, account_number,
                               NewAccount(ts, name, account_number, email,
                                          account_type, initial_balance, addr))
              IN
              /\ accounts' = accts
              /\ file' = save_data(accts)
              /\ notified' = notified + 1
              /\ last' = [Cmd("create_account", account_number, initial_balance,
                              "Account created")
                            EXCEPT !.mail = send_account_details(smtp)]

CreateAccount ==
    /\ Alive
    /\ \E name \in Names, email \in Emails, account_type \in AccountTypes,
          initial_balance \in InitialBalances, addr \in Addresses :
            create_account(name, email, account_type, initial_balance, addr)
    /\ UNCHANGED <<args, other>>

\* the same command, with the arguments of the call kept in args
CreateAccountTraced ==
    /\ Alive
    /\ \E name \in Names, email \in Emails, account_type \in AccountTypes,
          initial_balance \in InitialBalances, addr \in Addresses :
            /\ create_account(name, email, account_type, initial_balance, addr)
            /\ args' = [name |-> name, email |-> email, account_type |-> account_type,
                        initial_balance |-> initial_balance]
    /\ UNCHANGED other

\* main(), choice "2": account.deposit(amount); bank.save_data()
DepositCmd(account_number, amount) ==
    IF account_number \in DOMAIN accounts
    THEN \E ts \in Timestamps :
           LET r == deposit(accounts[account_number], ts, amount)
               accts == [accounts EXCEPT ![account_number] = r.acc]
           IN
           /\ r.ret = "True" => TotalEntries(accounts) < MaxEntries
           /\ accounts' = accts
           /\ file' = save_data(accts)
           /\ last' = Cmd("deposit", account_number, amount, r.ret)
           /\ UNCHANGED notified
    ELSE /\ last' = Cmd("deposit", account_number, amount, "Account not found")
         /\ UNCHANGED <<accounts, file, notified>>

Deposit ==
    /\ Alive
    /\ \E account_number \in AccountNumbers, amount \in DepositAmounts :
           DepositCmd(account_number, amount)
    /\ UNCHANGED <<args, other>>

\* the withdraw command without its call of save_data
WithdrawCmd_NoSave(account_number, amount) ==
    IF account_number \in DOMAIN accounts
    THEN \E ts \in Timestamps :
           LET r == withdraw(accounts[account_number], ts, amount)
               accts == [accounts EXCEPT ![account_number] = r.acc]
           IN
           /\ r.ret = "True" => TotalEntries(accounts) < MaxEntries
           /\ accounts' = accts
           /\ last' = Cmd("withdraw", account_number, amount, r.ret)
           /\ UNCHANGED <<file, notified>>
    ELSE /\ last' = Cmd("withdraw", account_number, amount, "Account not found")
         /\ UNCHANGED <<accounts, file, notified>>

\* main(), choice "3": if account.withdraw(amount): bank.save_data()
WithdrawCmd(account_number, amount) ==
    IF account_number \in DOMAIN accounts
    THEN \E ts \in Timestamps :
           LET r == withdraw(accounts[account_number], ts, amount)
               accts == [accounts EXCEPT ![account_number] = r.acc]
           IN
           /\ r.ret = "True" => TotalEntries(accounts) < MaxEntries
           /\ accounts' = accts
           /\ file' = IF r.ret = "True" THEN save_data(accts) ELSE file
           /\ last' = Cmd("withdraw", account_number, amount, r.ret)
           /\ UNCHANGED notified
    ELSE /\ last' = Cmd("withdraw", account_number, amount, "Account not found")
         /\ UNCHANGED <<accounts, file, notified>>

Withdraw ==
    /\ Alive
    /\ \E account_number \in AccountNumbers, amount \in WithdrawAmounts :
           WithdrawCmd(account_number, amount)
    /\ UNCHANGED <<args, other>>

\* str.strip() for the blank character
RECURSIVE LStrip(_)
LStrip(s) == IF s # <<>> /\ Head(s) = " " THEN LStrip(Tail(s)) ELSE s

RECURSIVE RStrip(_)
RStrip(s) ==
    IF s # <<>> /\ s[Len(s)] = " " THEN RStrip(SubSeq(s, 1, Len(s) - 1)) ELSE s

Strip(s) == RStrip(LStrip(s))

\* the email loop without the test that another account holds the email
RECURSIVE EmailLoop_NoInUseCheck(_, _, _, _)
EmailLoop_NoInUseCheck(accts, account_number, answers, i) ==
    IF i > Len(answers) THEN accts[account_number].email
    ELSE LET new_email == Strip(answers[i]) IN
         IF new_email = <<>> THEN accts[account_number].email
         ELSE IF ~EmailMatches(new_email)
         THEN EmailLoop_NoInUseCheck(accts, account_number, answers, i + 1)
         ELSE new_email

\* the email loop of update_account_details from its i-th prompt on: the
\* value account._email holds when the loop is left
RECURSIVE EmailLoop(_, _, _, _)
EmailLoop(accts, account_number, answers, i) ==
    IF i > Len(answers) THEN accts[account_number].email
    ELSE LET new_email == Strip(answers[i]) IN
         IF new_email = <<>> THEN accts[account_number].email
         ELSE IF ~EmailMatches(new_email)
         THEN EmailLoop(accts, account_number, answers, i + 1)
         ELSE IF \E n \in DOMAIN accts :
                    to_dict(accts[n]).email = new_email /\ n # account_number
         THEN EmailLoop(accts, account_number, answers, i + 1)
         ELSE new_email

\* a prompted field replacing the old value whatever its length
UpdatedField_NoMinimum(old, answer, min) ==
    LET new == Strip(answer) IN
    IF new # <<>> THEN new ELSE old

\* a prompted field of at least min characters replaces the old value
UpdatedField(old, answer, min) ==
    LET new == Strip(answer) IN
    IF new # <<>> /\ Len(new) >= min THEN new ELSE old

\* update_account_details assigning the new name to every account of the store
update_account_details_RenamesAll(account_number, in) ==
    IF account_number \in DOMAIN accounts
    THEN LET account == accounts[account_number]
             new_name == Strip(in.name)
             updated ==
                 [account EXCEPT
                    !.name = IF new_name # <<>> THEN new_name ELSE @,
                    !.email = EmailLoop(accounts, account_number, in.emails, 1),
                    !.street_address = UpdatedField(@, in.street_address, 5),
                    !.postal_code = UpdatedField(@, in.postal_code, 3),
                    !.city = UpdatedField(@, in.city, 3),
                    !.country = UpdatedField(@, in.country, 3)]
             accts == [n \in DOMAIN accounts |->
                          IF n = account_number THEN updated
                          ELSE [accounts[n] EXCEPT
                                  !.name = IF new_name # <<>> THEN new_name ELSE @]]
         IN
         /\ accounts' = accts
         /\ file' = save_data(accts)
         /\ last' = [Cmd("update_account_details", account_number, 0,
                         "Account details updated") EXCEPT !.in = in]
         /\ UNCHANGED notified
    ELSE /\ last' = [Cmd("update_account_details", account_number, 0,
                         "Account not found") EXCEPT !.in = in]
         /\ UNCHANGED <<accounts, file, notified>>

\* Bank.update_account_details
update_account_details(account_number, in) ==
    IF account_number \in DOMAIN accounts
    THEN LET account == accounts[account_number]
             new_name == Strip(in.name)
             updated ==
                 [account EXCEPT
                    !.name = IF new_name # <<>> THEN new_name ELSE @,
                    !.email = EmailLoop(accounts, account_number, in.emails, 1),
                    !.street_address = UpdatedField(@, in.street_address, 5),
                    !.postal_code = UpdatedField(@, in.postal_code, 3),
                    !.city = UpdatedField(@, in.city, 3),
                    !.country = UpdatedField(@, in.country, 3)]
             accts == [accounts EXCEPT ![account_number] = updated]
         IN
         /\ accounts' = accts
         /\ file' = save_data(accts)
         /\ last' = [Cmd("update_account_details", account_number, 0,
                         "Account details updated") EXCEPT !.in = in]
         /\ UNCHANGED notified
    ELSE /\ last' = [Cmd("update_account_details", account_number, 0,
                         "Account not found") EXCEPT !.in = in]
         /\ UNCHANGED <<accounts, file, notified>>

UpdateAccountDetails ==
    /\ Alive
    /\ \E account_number \in AccountNumbers, in \in UpdateInputs :
           update_account_details(account_number, in)
    /\ UNCHANGED <<args, other>>

\* main(), choice "5": account.show_transaction_history()
ShowHistoryCmd(account_number) ==
    /\ IF account_number \in DOMAIN accounts
       THEN LET r == show_transaction_history(accounts[account_number]) IN
            last' = [Cmd("show_transaction_history", account_number, 0, r.ret)
                       EXCEPT !.out = r.out]
       ELSE last' = Cmd("show_transaction_history", account_number, 0,
                        "Account not found")
    /\ UNCHANGED <<accounts, file, notified>>

ShowHistory ==
    /\ Alive
    /\ \E account_number \in AccountNumbers : ShowHistoryCmd(account_number)
    /\ UNCHANGED <<args, other>>

\* main() started again: bank = Bank() reads the snapshot
Restart ==
    /\ \E ts \in Timestamps : accounts' = load_data(file, ts)
    /\ last' = Cmd("restart", 0, 0, load_data_ret(file))
    /\ UNCHANGED <<file, notified, args, other>>

\* the same command with the wider choice of answers
UpdateAccountDetailsWide ==
    /\ Alive
    /\ \E account_number \in AccountNumbers, in \in UpdateInputsWide :
           update_account_details(account_number, in)
    /\ UNCHANGED <<args, other>>

Next ==
    \/ CreateAccount
    \/ Deposit
    \/ Withdraw
    \/ UpdateAccountDetails
    \/ ShowHistory
    \/ Restart

Spec == Init /\ [][Next]_vars

\* create_account calls alone, each with its arguments on record
NextCreate ==
    \/ CreateAccountTraced
    \/ Restart

SpecCreate == Init /\ [][NextCreate]_vars

\* the store under create_account and update_account_details alone
NextUpdate ==
    \/ CreateAccount
    \/ UpdateAccountDetailsWide
    \/ Restart

SpecUpdate == Init /\ [][NextUpdate]_vars

----------------------------------------------------------------------------
(* The program started on a bank_data.json that already exists: whatever   *)
(* mapping of account records an earlier version or another tool wrote.    *)

Opt(present, v) == [present |-> present, v |-> v]

OldLog ==
    <<[timestamp |-> "2023-12-31 09:00", action |-> "Account created with balance",
       amount |-> 50, running_balance |-> 50,
       details |-> <<"Account created with balance", ": $", 50>>],
      [timestamp |-> "2023-12-31 09:05", action |-> "Deposit",
       amount |-> 200, running_balance |-> 250,
       details |-> <<"Deposit", ": $", 200>>]>>

RecordKinds == {Opt(TRUE, "Savings"), Opt(TRUE, "Checking"), Opt(TRUE, "Business"),
                Opt(FALSE, "")}
RecordBalances == {Opt(TRUE, 250), Opt(TRUE, 50), Opt(FALSE, 0)}
\* logs an earlier version of the program wrote: entries in the old format
LegacyEntry(ts, text, amount) ==
    [timestamp |-> ts, details |-> <<text, " $", amount>>]

LegacyLog ==
    <<LegacyEntry("2022-03-01 08:00", <<"Account", "created", "with", "balance">>, 100),
      LegacyEntry("2022-03-02 08:00", <<"Deposited">>, 40),
      LegacyEntry("2022-03-03 08:00", <<"Withdrew">>, 30)>>

\* a log holding a description none of the three phrases occurs in
TransferLog ==
    <<LegacyEntry("2022-03-01 08:00", <<"Account", "created", "with", "balance">>, 100),
      LegacyEntry("2022-03-02 08:00", <<"Transfer", "in">>, 5)>>

\* the same description as the first entry of a log
TransferFirstLog ==
    <<LegacyEntry("2022-03-02 08:00", <<"Transfer", "in">>, 5)>>

\* an old-format log that does not begin with a creation entry
LegacyDepositLog ==
    <<LegacyEntry("2022-03-02 08:00", <<"Deposited">>, 40),
      LegacyEntry("2022-03-03 08:00", <<"Withdrew">>, 30)>>

RecordLogs == {Opt(TRUE, OldLog), Opt(TRUE, <<>>), Opt(FALSE, <<>>),
               Opt(TRUE, LegacyLog), Opt(TRUE, TransferLog), Opt(TRUE, TransferFirstLog),
               Opt(TRUE, LegacyDepositLog)}

PersonKeys == {"name", "email", "street_address", "postal_code", "city", "country"}

\* one record of the snapshot, with the keys an option marks absent left out
AccountRecord(key, kind, bal, log, person) ==
    LET full == [name |-> Txt_Ann, account_number |-> key, email |-> Email_a,
                 balance |-> bal.v, account_type |-> kind.v,
                 street_address |-> None, postal_code |-> Txt_Postal,
                 city |-> Txt_City, country |-> None,
                 transactions |-> log.v]
        absent == (IF kind.present THEN {} ELSE {"account_type"})
                  \cup (IF bal.present THEN {} ELSE {"balance"})
                  \cup (IF log.present THEN {} ELSE {"transactions"})
                  \cup (IF person THEN {} ELSE PersonKeys)
    IN [k \in DOMAIN full \ absent |-> full[k]]

Snapshots ==
    {[state |-> st, data |-> <<>>] :
        st \in {"absent", "mapping", "blank", "garbage", "null", "array", "numbers"}}
    \cup {[state |-> "mapping",
           data |-> [n \in {key} |-> AccountRecord(key, kind, bal, log, person)]] :
            key \in {1000000000}, kind \in RecordKinds, bal \in RecordBalances,
            log \in RecordLogs, person \in BOOLEAN}

\* the state once Bank() has been constructed on such a file
InitSnapshot ==
    /\ file \in Snapshots
    /\ \E ts \in Timestamps : accounts = load_data(file, ts)
    /\ last = Cmd("restart", 0, 0, load_data_ret(file))
    /\ notified = 0
    /\ args = <<>>
    /\ other = <<>>

\* the commands that work on the accounts the store already holds
NextSnapshot ==
    \/ Deposit
    \/ Withdraw
    \/ UpdateAccountDetails
    \/ ShowHistory
    \/ Restart

SpecSnapshot == InitSnapshot /\ [][NextSnapshot]_vars

----------------------------------------------------------------------------
(* Two processes running main() on the same bank_data.json: accounts is    *)
(* the store of the first, other the store of the second.                  *)

\* the deposit command of the second process saving the accounts of the
\* file it does not hold along with its own
OtherDepositCmd_KeepsForeign(account_number, amount) ==
    /\ account_number \in DOMAIN other
    /\ \E ts \in Timestamps :
          LET r == deposit(other[account_number], ts, amount)
              accts == [other EXCEPT ![account_number] = r.acc]
              kept == DOMAIN file.data \ DOMAIN accts
          IN
          /\ r.ret = "True" => TotalEntries(other) < MaxEntries
          /\ other' = accts
          /\ file' = [state |-> "mapping",
                      data |-> [n \in DOMAIN accts \cup kept |->
                                   IF n \in kept THEN file.data[n]
                                   ELSE to_dict(accts[n])]]
          /\ last' = Cmd("other deposit", account_number, amount, r.ret)

\* main() of the second process, choice "2" on an account it holds:
\* account.deposit(amount); bank.save_data()
OtherDepositCmd(account_number, amount) ==
    /\ account_number \in DOMAIN other
    /\ \E ts \in Timestamps :
          LET r == deposit(other[account_number], ts, amount)
              accts == [other EXCEPT ![account_number] = r.acc]
          IN
          /\ r.ret = "True" => TotalEntries(other) < MaxEntries
          /\ other' = accts
          /\ file' = save_data(accts)
          /\ last' = Cmd("other deposit", account_number, amount, r.ret)

OtherDeposit ==
    /\ \E account_number \in AccountNumbers, amount \in DepositAmounts :
          OtherDepositCmd(account_number, amount)
    /\ UNCHANGED <<accounts, notified, args>>

\* main() of the second process started: its Bank() reads the snapshot
OtherRestart ==
    /\ \E ts \in Timestamps : other' = load_data(file, ts)
    /\ last' = Cmd("other restart", 0, 0, load_data_ret(file))
    /\ UNCHANGED <<accounts, file, notified, args>>

\* both processes have been started on the snapshot of one account that an
\* earlier run of the program saved
InitTwo ==
    /\ \E account_type \in {"Savings", "Checking"}, ts \in Timestamps, addr \in Addresses :
          file = save_data(StoreAccount(<<>>, 1000000000,
                     NewAccount(ts, Txt_Ann, 1000000000, Email_a, account_type, 100, addr)))
    /\ \E ts \in Timestamps : accounts = load_data(file, ts) /\ other = accounts
    /\ last = Cmd("other restart", 0, 0, load_data_ret(file))
    /\ notified = 0
    /\ args = <<>>

NextTwo ==
    \/ CreateAccount
    \/ Deposit
    \/ OtherDeposit
    \/ OtherRestart

SpecTwo == InitTwo /\ [][NextTwo]_vars

----------------------------------------------------------------------------
(* One call of generate_account_number, draw by draw, on a store that      *)
(* holds some of the numbers random.randint can return.                    *)

\* the values random.randint is taken to range over in this call
GenNumbers == 1000000000..1000000004

\* collisions of one call are counted up to this number
MaxCounted == 2

\* a store holding an account under each number of keys
GenStore(keys) ==
    [n \in keys |->
        NewAccount("2024-05-01 10:00", Txt_Ann, n,
                   <<(<<"a", "b", "c", "d", "l">>)[n - 999999999], "@", "b", ".", "c">>,
                   "Savings", 0, <<Txt_Street, Txt_Postal, Txt_City, Txt_Country>>)]

\* create_account has passed its validations and calls generate_account_number
InitGenerate ==
    /\ \E keys \in SUBSET GenNumbers : accounts = GenStore(keys)
    /\ file = save_data(accounts)
    /\ last = Cmd("generate_account_number", 0, 0, "drawing")
    /\ notified = Cardinality(DOMAIN accounts)
    /\ args = <<>>
    /\ other = <<>>

\* one pass of the loop that gives up when the number drawn is in use
Draw_GivesUp(n) ==
    /\ last.op = "generate_account_number"
    /\ last.ret = "drawing"
    /\ last' = IF n \in DOMAIN accounts
               THEN Cmd("generate_account_number", n, last.amount, "gave up")
               ELSE Cmd("generate_account_number", n, last.amount, "returned")
    /\ UNCHANGED <<accounts, file, notified, args, other>>

\* one pass of the loop: n is drawn; the call returns it if it is no key of
\* the store and draws again otherwise. last.amount counts the collisions.
Draw(n) ==
    /\ last.op = "generate_account_number"
    /\ last.ret = "drawing"
    /\ last' = IF n \in DOMAIN accounts
               THEN Cmd("generate_account_number", n,
                        IF last.amount < MaxCounted THEN last.amount + 1 ELSE last.amount,
                        "drawing")
               ELSE Cmd("generate_account_number", n, last.amount, "returned")
    /\ UNCHANGED <<accounts, file, notified, args, other>>

NextGenerate == \E n \in GenNumbers : Draw(n)

\* random choice is fair: a number that can be drawn at every pass is
\* drawn at some pass
SpecGenerate ==
    InitGenerate /\ [][NextGenerate]_vars /\ \A n \in GenNumbers : WF_vars(Draw(n))

----------------------------------------------------------------------------
(* Properties *)

LastEntry(acc) == acc.transactions[Len(acc.transactions)]

\* the step just taken ran op on an account the store held before the step
StepOn(op) == last'.op = op /\ last'.acc \in DOMAIN accounts

\* log2 is log1 followed by one entry of the given action, amount and balance
AppendedOne(log1, log2, action, amount, running_balance) ==
    /\ Len(log2) = Len(log1) + 1
    /\ SubSeq(log2, 1, Len(log1)) = log1
    /\ log2[Len(log2)].action = action
    /\ log2[Len(log2)].amount = amount
    /\ log2[Len(log2)].running_balance = running_balance

\* C1: the balance of every account the store created equals the
\* running_balance of the last entry of its log, after any deposits and
\* withdrawals, accepted or refused.
C1_BalanceIsLastRunningBalance ==
    \A n \in DOMAIN accounts :
        /\ accounts[n].transactions # <<>>
        /\ accounts[n].balance = LastEntry(accounts[n]).running_balance

\* an account that took a deposit and a withdrawal, then refused a withdrawal
C1_Witness ==
    /\ last.op = "withdraw"
    /\ last.ret = "False"
    /\ last.acc \in DOMAIN accounts
    /\ Len(accounts[last.acc].transactions) = 3
    /\ accounts[last.acc].transactions[2].action = "Deposit"
    /\ accounts[last.acc].transactions[3].action = "Withdrawal"

\* C2: the first entry of every log is the creation entry, carrying the initial
\* balance as its running_balance, and each later entry's running_balance is
\* the one before it plus its amount (Deposit) or minus its amount (Withdrawal).
C2_RunningBalanceChain ==
    /\ \A n \in DOMAIN accounts :
        LET log == accounts[n].transactions IN
        /\ log # <<>>
        /\ log[1].action = "Account created with balance"
        /\ log[1].running_balance = log[1].amount
        /\ \A i \in 2..Len(log) :
            /\ log[i].action \in {"Deposit", "Withdrawal"}
            /\ log[i].action = "Deposit" =>
                 log[i].running_balance = log[i - 1].running_balance + log[i].amount
            /\ log[i].action = "Withdrawal" =>
                 log[i].running_balance = log[i - 1].running_balance - log[i].amount
    /\ (last.op = "create_account" /\ last.ret = "Account created") =>
         accounts[last.acc].transactions[1].running_balance = last.amount

\* a Checking account created with 100 that took a deposit, then a withdrawal
C2_Witness ==
    \E n \in DOMAIN accounts :
        /\ accounts[n].cls = "CheckingAccount"
        /\ Len(accounts[n].transactions) = 3
        /\ accounts[n].transactions[1].running_balance = 100
        /\ accounts[n].transactions[2].action = "Deposit"
        /\ accounts[n].transactions[3].action = "Withdrawal"

\* C3: a withdrawal of more than 100 from a Savings account returns False and
\* leaves the account (balance and log) as it was, whatever its balance.
C3_SavingsCeiling ==
    [][(StepOn("withdraw") /\ accounts[last'.acc].cls = "SavingsAccount"
           /\ last'.amount > 100)
        => (last'.ret = "False" /\ accounts' = accounts /\ file' = file)]_vars

\* a Savings account holding 250 has just refused a withdrawal of 150
C3_Witness ==
    /\ last.op = "withdraw"
    /\ last.amount = 150
    /\ last.ret = "False"
    /\ last.acc \in DOMAIN accounts
    /\ accounts[last.acc].cls = "SavingsAccount"
    /\ accounts[last.acc].balance = 250
    /\ Len(accounts[last.acc].transactions) = 2

\* C4: a withdrawal from a Checking account returns True exactly when
\* 0 < amount <= balance, whatever the amount; it then lowers the balance by
\* the amount and appends one Withdrawal entry carrying the new balance.
C4_CheckingWithdraw ==
    [][(StepOn("withdraw") /\ accounts[last'.acc].cls = "CheckingAccount")
        => LET n == last'.acc
               amount == last'.amount
           IN
           /\ last'.ret \in {"True", "False"}
           /\ last'.ret = "True" <=> (0 < amount /\ amount <= accounts[n].balance)
           /\ last'.ret = "True" =>
                /\ accounts'[n].balance = accounts[n].balance - amount
                /\ AppendedOne(accounts[n].transactions, accounts'[n].transactions,
                               "Withdrawal", amount, accounts'[n].balance)]_vars

\* a Checking account has just paid out its whole balance of 150
C4_Witness ==
    /\ last.op = "withdraw"
    /\ last.amount = 150
    /\ last.ret = "True"
    /\ last.acc \in DOMAIN accounts
    /\ accounts[last.acc].cls = "CheckingAccount"
    /\ accounts[last.acc].balance = 0

\* C5: on a Savings and on a Checking account, a withdrawal of more than the
\* balance returns False and leaves the account (balance and log) as it was.
C5_InsufficientFunds ==
    [][(StepOn("withdraw")
           /\ accounts[last'.acc].cls \in {"SavingsAccount", "CheckingAccount"}
           /\ last'.amount > accounts[last'.acc].balance)
        => (last'.ret = "False" /\ accounts' = accounts /\ file' = file)]_vars

\* a Savings account with balance 0 has just refused a withdrawal of 60
C5_Witness ==
    /\ last.op = "withdraw"
    /\ last.amount = 60
    /\ last.ret = "False"
    /\ last.acc \in DOMAIN accounts
    /\ accounts[last.acc].cls = "SavingsAccount"
    /\ accounts[last.acc].balance = 0

\* C6: on both variants a deposit of amount <= 0 returns False and leaves the
\* account as it was; a deposit of amount > 0 returns True, raises the balance
\* by the amount and appends one Deposit entry carrying the new balance.
C6_Deposit ==
    [][StepOn("deposit")
        => LET n == last'.acc
               amount == last'.amount
           IN
           /\ amount <= 0 => (last'.ret = "False" /\ accounts' = accounts)
           /\ amount > 0 =>
                /\ last'.ret = "True"
                /\ accounts'[n].balance = accounts[n].balance + amount
                /\ AppendedOne(accounts[n].transactions, accounts'[n].transactions,
                               "Deposit", amount, accounts'[n].balance)]_vars

\* a Checking account that took a deposit before has just refused a deposit of 0
C6_Witness ==
    /\ last.op = "deposit"
    /\ last.amount = 0
    /\ last.ret = "False"
    /\ last.acc \in DOMAIN accounts
    /\ accounts[last.acc].cls = "CheckingAccount"
    /\ Len(accounts[last.acc].transactions) = 2
    /\ accounts[last.acc].transactions[2].action = "Deposit"

\* C7: no account of the store ever has a balance below 0, whatever
\* create_account, deposit, withdraw and update_account_details calls were made.
C7_BalanceNonNegative ==
    \A n \in DOMAIN accounts : accounts[n].balance >= 0

\* a store of two accounts, one emptied by a withdrawal, after an update
C7_Witness ==
    /\ last.op = "update_account_details"
    /\ last.ret = "Account details updated"
    /\ Cardinality(DOMAIN accounts) = 2
    /\ \E n \in DOMAIN accounts :
        /\ accounts[n].balance = 0
        /\ LastEntry(accounts[n]).action = "Withdrawal"

\* C10: the number create_account gets from generate_account_number is not a
\* key of the store, so a successful create_account adds that one key and
\* leaves every account the store held as it was.
C10_FreshAccountNumber ==
    [][(last'.op = "create_account" /\ last'.ret = "Account created")
        => /\ last'.acc \notin DOMAIN accounts
           /\ DOMAIN accounts' = DOMAIN accounts \cup {last'.acc}
           /\ \A n \in DOMAIN accounts : accounts'[n] = accounts[n]]_vars

\* a second account has just been created beside an existing one
C10_Witness ==
    /\ last.op = "create_account"
    /\ last.ret = "Account created"
    /\ Cardinality(DOMAIN accounts) = 2

\* the kind a snapshot record names is neither "Savings" nor "Checking"
UnknownKind(x) ==
    "account_type" \notin DOMAIN x \/ x.account_type \notin {"Savings", "Checking"}

\* C8: for every record x of the snapshot, to_dict(from_dict(x)) has the
\* balance, the account kind and the whole transaction log of x, and
\* from_dict(x) is of the class x's account_type names.
C8_RoundTrip ==
    (last.op = "restart" /\ file.state = "mapping") =>
        \A n \in DOMAIN file.data :
            LET x == file.data[n]
                y == to_dict(accounts[n])
            IN
            /\ "balance" \in DOMAIN x => y.balance = x.balance
            /\ "account_type" \in DOMAIN x => y.account_type = x.account_type
            /\ "transactions" \in DOMAIN x => y.transactions = x.transactions
            /\ ~UnknownKind(x) =>
                 accounts[n].cls = (IF x.account_type = "Savings"
                                    THEN "SavingsAccount" ELSE "CheckingAccount")

\* a Checking record whose log grew by a deposit has just been read back
C8_Witness ==
    /\ last.op = "restart"
    /\ file.state = "mapping"
    /\ \E n \in DOMAIN file.data :
        /\ {"account_type", "balance", "transactions"} \subseteq DOMAIN file.data[n]
        /\ file.data[n].account_type = "Checking"
        /\ file.data[n].balance = 400
        /\ Len(file.data[n].transactions) = 3
        /\ SubSeq(file.data[n].transactions, 1, 2) = OldLog
        /\ accounts[n].cls = "CheckingAccount"

\* C9: a record whose kind is missing or unrecognized is read as a Savings
\* account: its recorded kind is Savings, and withdraw on it answers True or
\* False under the Savings rules, refusing any amount above 100.
C9_UnknownKindIsSavings ==
    /\ (last.op = "restart" /\ file.state = "mapping") =>
         \A n \in DOMAIN file.data :
             UnknownKind(file.data[n]) =>
                 /\ accounts[n].account_type = "Savings"
                 /\ accounts[n].cls = "SavingsAccount"
    /\ (last.op = "withdraw" /\ last.acc \in DOMAIN accounts) =>
         /\ last.ret \in {"True", "False"}
         /\ (accounts[last.acc].cls # "CheckingAccount" /\ last.amount > 100) =>
              last.ret = "False"

CreateErrors ==
    {"Invalid email format", "Email already exists", "Name and email cannot be empty",
     "Initial balance cannot be negative", "Bad account type"}

\* C11: a create_account call that a validation rejects (email syntax,
\* email already used, empty name or email, negative opening balance, kind
\* other than Checking or Savings) leaves the store and the snapshot exactly
\* as they were and sends no notification.
C11_RejectedCreateChangesNothing ==
    [][(last'.op = "create_account" /\ last'.ret # "Account created") =>
          /\ last'.ret \in CreateErrors
          /\ accounts' = accounts
          /\ file' = file
          /\ notified' = notified
          /\ last'.mail = "none"]_vars

\* a create_account refused for its email on a store that already holds an
\* account with that email and a snapshot of it
C11_Witness ==
    /\ last.op = "create_account"
    /\ last.ret = "Email already exists"
    /\ accounts # <<>>
    /\ file.state = "mapping"
    /\ notified = 1

\* C12: in every state reached from the empty store by create_account and
\* update_account_details calls, no two distinct accounts hold the same
\* email.
C12_EmailsUnique ==
    \A m, n \in DOMAIN accounts :
        m # n => accounts[m].email # accounts[n].email

\* two accounts, one of which has just asked in update_account_details for
\* the email the other holds
C12_Witness ==
    /\ last.op = "update_account_details"
    /\ last.ret = "Account details updated"
    /\ \E n \in DOMAIN accounts :
          /\ n # last.acc
          /\ accounts[n].email = Email_b
          /\ last.in.emails[1] = Email_b

\* the step just taken is a create_account call that stored a new account
CreatedStep == last'.op = "create_account" /\ last'.ret = "Account created"

\* C13: every successful create_account sends the notification exactly once,
\* with the new account in the store and in the snapshot; a notification
\* that fails is only reported, the account stays in both and nothing is
\* raised to the caller. No other step sends a notification.
C13_NotifiedOncePerCreate ==
    [][/\ CreatedStep =>
            /\ notified' = notified + 1
            /\ last'.mail \in {"sent", "failed"}
            /\ last'.acc \notin DOMAIN accounts
            /\ last'.acc \in DOMAIN accounts'
            /\ file'.state = "mapping"
            /\ last'.acc \in DOMAIN file'.data
            /\ file'.data[last'.acc] = to_dict(accounts'[last'.acc])
       /\ ~CreatedStep => notified' = notified /\ last'.mail = "none"]_vars

\* the second account of the store has just been created and its
\* notification failed
C13_Witness ==
    /\ last.op = "create_account"
    /\ last.ret = "Account created"
    /\ last.mail = "failed"
    /\ notified = 2
    /\ last.acc \in DOMAIN accounts
    /\ last.acc \in DOMAIN file.data

\* C14: restore never raises. An absent or empty snapshot gives the empty
\* store; a corrupt snapshot, be it text that does not parse or parsed
\* content that is not a mapping of account records, is reported and gives
\* the empty store.
C14_RestoreNeverRaises ==
    last.op = "restart" =>
        /\ last.ret \notin Exceptions
        /\ (file.state = "absent" \/ (file.state = "mapping" /\ DOMAIN file.data = {}))
              => accounts = <<>>
        /\ file.state \in {"blank", "garbage", "null", "array", "numbers"} =>
              /\ accounts = <<>>
              /\ last.ret \in {"Error reading the bank_data.json file. Starting fresh.",
                               "The bank_data.json file is empty. Starting fresh."}

\* the step just taken completed a command that changes accounts: a
\* create_account that stored an account, a deposit, a withdrawal that was
\* granted, or an update of details
MutatingStep ==
    \/ CreatedStep
    \/ StepOn("deposit")
    \/ StepOn("withdraw") /\ last'.ret = "True"
    \/ StepOn("update_account_details")

\* C15: after every completed mutating command the snapshot file holds the
\* serialization of the whole in-memory store: one record per stored
\* account, each the to_dict of that account, and nothing else.
C15_SnapshotIsWholeStore ==
    [][MutatingStep =>
          /\ file'.state = "mapping"
          /\ DOMAIN file'.data = DOMAIN accounts'
          /\ \A n \in DOMAIN accounts' : file'.data[n] = to_dict(accounts'[n])]_vars

\* a granted withdrawal in a store of two accounts, both in the snapshot
C15_Witness ==
    /\ last.op = "withdraw"
    /\ last.ret = "True"
    /\ Cardinality(DOMAIN accounts) = 2
    /\ DOMAIN file.data = DOMAIN accounts
    /\ file.data[last.acc].balance = accounts[last.acc].balance

\* an entry in the old format whose description holds none of the three
\* phrases the history report recognizes
Unrecognized(trans) ==
    /\ "action" \notin DOMAIN trans
    /\ \A phrase \in {<<"Account", "created", "with", "balance">>,
                      <<"Deposited">>, <<"Withdrew">>} :
           ~HasPhrase(Get(trans, "details", <<<<>>, "", 0>>)[1], phrase)

\* C16: in the history report an old-format entry whose description matches
\* none of the three phrases is flagged as unrecognized: the report is
\* produced and the row of that entry is not rendered as a creation, a
\* deposit or a withdrawal with values carried from another entry or
\* defaulted.
C16_UnrecognizedEntryFlagged ==
    (last.op = "show_transaction_history" /\ last.acc \in DOMAIN accounts) =>
        \A i \in 1..Len(accounts[last.acc].transactions) :
            Unrecognized(accounts[last.acc].transactions[i]) =>
                /\ last.ret = "shown"
                /\ last.out.rows[i].action
                       \notin {"Account created", "Deposit", "Withdrawal"}

\* the value a prompted field has after the update: a non-blank answer of
\* at least min characters is applied, a shorter one is skipped
FieldAfter(old, answer, min, new) ==
    LET a == Strip(answer) IN
    /\ (a # <<>> /\ Len(a) < min) => new = old
    /\ (a # <<>> /\ Len(a) >= min) => new = a
    /\ a = <<>> => new = old

\* email a fails its constraint for account n: bad syntax or held by another
EmailFails(a, n) ==
    \/ ~EmailMatches(a)
    \/ \E m \in DOMAIN accounts : m # n /\ accounts[m].email = a

\* the email after the update: the first answer that is blank or passes ends
\* the prompt; answers that fail are skipped
EmailAfter(old, answers, n, new) ==
    LET ends == {i \in 1..Len(answers) :
                    Strip(answers[i]) = <<>> \/ ~EmailFails(Strip(answers[i]), n)}
    IN IF ends = {} THEN new = old
       ELSE LET g == CHOOSE i \in ends : \A j \in ends : i <= j IN
            new = IF Strip(answers[g]) = <<>> THEN old ELSE Strip(answers[g])

\* C17: in update_account_details a supplied field that fails its
\* constraint (email syntax or uniqueness, street address under 5
\* characters, postal code, city or country under 3) is skipped and keeps
\* its old value, every other non-blank valid field of the same call is
\* applied, and the store is persisted when the call completes.
C17_InvalidFieldsSkipped ==
    [][StepOn("update_account_details") =>
          LET n == last'.acc
              in == last'.in
              old == accounts[n]
              new == accounts'[n]
          IN
          /\ new.name = IF Strip(in.name) # <<>> THEN Strip(in.name) ELSE old.name
          /\ EmailAfter(old.email, in.emails, n, new.email)
          /\ FieldAfter(old.street_address, in.street_address, 5, new.street_address)
          /\ FieldAfter(old.postal_code, in.postal_code, 3, new.postal_code)
          /\ FieldAfter(old.city, in.city, 3, new.city)
          /\ FieldAfter(old.country, in.country, 3, new.country)
          /\ file'.state = "mapping"
          /\ n \in DOMAIN file'.data
          /\ file'.data[n] = to_dict(new)]_vars

\* an update whose street address and city were too short and kept their
\* old values, whose first email was held by the other account, and whose
\* name and postal code were applied
C17_Witness ==
    /\ last.op = "update_account_details"
    /\ last.ret = "Account details updated"
    /\ last.in.street_address = Txt_Elm
    /\ accounts[last.acc].street_address = Txt_Street
    /\ accounts[last.acc].city = Txt_City
    /\ accounts[last.acc].postal_code = Txt_Postal3
    /\ accounts[last.acc].name = Txt_Ann
    /\ accounts[last.acc].email = Email_a
    /\ \E m \in DOMAIN accounts : m # last.acc /\ accounts[m].email = Email_b
    /\ file.data[last.acc].postal_code = Txt_Postal3

\* C18: the log of an account is append-only. Every step (deposit,
\* withdrawal, update of details, persist, viewing the history, restart)
\* leaves the entries it held unchanged and in the same order; a granted
\* deposit or withdrawal appends exactly one entry to the account it was
\* made on, and every other step, a refused deposit or withdrawal among
\* them, appends none.
C18_LogAppendOnly ==
    [][\A n \in DOMAIN accounts :
          /\ n \in DOMAIN accounts'
          /\ LET old == accounts[n].transactions
                 new == accounts'[n].transactions
                 granted == /\ last'.op \in {"deposit", "withdraw"}
                            /\ last'.acc = n
                            /\ last'.ret = "True"
             IN
             /\ Len(new) = Len(old) + (IF granted THEN 1 ELSE 0)
             /\ SubSeq(new, 1, Len(old)) = old]_vars

\* a log of three entries whose owner has just viewed its history
C18_Witness ==
    /\ last.op = "show_transaction_history"
    /\ last.ret = "shown"
    /\ Len(accounts[last.acc].transactions) = 3
    /\ accounts[last.acc].transactions[2].action = "Deposit"
    /\ accounts[last.acc].transactions[3].action = "Withdrawal"
    /\ Len(last.out.rows) = 3

\* C19: a withdrawal from a Savings account returns True exactly when
\* 0 < amount <= 100 and amount <= balance; it then lowers the balance by
\* the amount and appends one Withdrawal entry carrying the new balance, and
\* otherwise leaves the account as it was.
C19_SavingsWithdraw ==
    [][(StepOn("withdraw") /\ accounts[last'.acc].cls = "SavingsAccount")
        => LET n == last'.acc
               amount == last'.amount
               old == accounts[n]
               new == accounts'[n]
           IN
           /\ last'.ret \in {"True", "False"}
           /\ last'.ret = "True" <=>
                 (0 < amount /\ amount <= 100 /\ amount <= old.balance)
           /\ last'.ret = "True" =>
                 /\ new.balance = old.balance - amount
                 /\ AppendedOne(old.transactions, new.transactions,
                                "Withdrawal", amount, old.balance - amount)
           /\ last'.ret = "False" => accounts' = accounts]_vars

\* a Savings account that held exactly 100 has just been granted a
\* withdrawal of 100
C19_Witness ==
    /\ last.op = "withdraw"
    /\ last.amount = 100
    /\ last.ret = "True"
    /\ last.acc \in DOMAIN accounts
    /\ accounts[last.acc].cls = "SavingsAccount"
    /\ accounts[last.acc].balance = 0
    /\ Len(accounts[last.acc].transactions) = 2

\* C20: update_account_details never changes the account number, the
\* balance, the kind or the log of the account it is called on, and never
\* changes any other account; after every step each account is stored under
\* the key that equals its account number.
C20_UpdateTouchesDetailsOnly ==
    [][/\ StepOn("update_account_details") =>
            LET n == last'.acc IN
            /\ DOMAIN accounts' = DOMAIN accounts
            /\ accounts'[n].account_number = accounts[n].account_number
            /\ accounts'[n].balance = accounts[n].balance
            /\ accounts'[n].account_type = accounts[n].account_type
            /\ accounts'[n].cls = accounts[n].cls
            /\ accounts'[n].transactions = accounts[n].transactions
            /\ \A m \in DOMAIN accounts : m # n => accounts'[m] = accounts[m]
       /\ \A n \in DOMAIN accounts' : accounts'[n].account_number = n]_vars

\* an update that changed the name of one of two accounts, which holds a
\* balance and a log made by a deposit
C20_Witness ==
    /\ last.op = "update_account_details"
    /\ last.ret = "Account details updated"
    /\ Cardinality(DOMAIN accounts) = 2
    /\ accounts[last.acc].name = <<"B", "o">>
    /\ accounts[last.acc].balance = 150
    /\ Len(accounts[last.acc].transactions) = 2
    /\ \E m \in DOMAIN accounts : m # last.acc /\ accounts[m].name = Txt_Ann

\* C21: no withdraw made on an account of the store ends with the
\* "unimplemented operation" error: every account the store holds, after
\* any create_account and any restore, is a SavingsAccount or a
\* CheckingAccount.
C21_WithdrawNeverUnimplemented ==
    /\ last.ret # "NotImplementedError"
    /\ \A n \in DOMAIN accounts :
           accounts[n].cls \in {"SavingsAccount", "CheckingAccount"}

\* the validations of create_account that the arguments a violate on store
\* accts, by their place in the order the checks are made in
Violated(accts, a) ==
    {k \in 1..5 :
        CASE k = 1 -> ~EmailMatches(a.email)
          [] k = 2 -> \E n \in DOMAIN accts : accts[n].email = a.email
          [] k = 3 -> a.name = <<>> \/ a.email = <<>>
          [] k = 4 -> a.initial_balance < 0
          [] k = 5 -> a.account_type \notin {"Savings", "Checking"}}

ErrorOf(k) ==
    CASE k = 1 -> "Invalid email format"
      [] k = 2 -> "Email already exists"
      [] k = 3 -> "Name and email cannot be empty"
      [] k = 4 -> "Initial balance cannot be negative"
      [] k = 5 -> "Bad account type"

\* C22: create_account makes its checks in the order email syntax, email
\* uniqueness, non-empty name and email, initial_balance >= 0, kind in
\* {Savings, Checking}: a call whose arguments violate several of them
\* reports the first one violated in that order, and a call that violates
\* none creates the account.
C22_FirstViolationReported ==
    [][(last'.op = "create_account" /\ args' # <<>>) =>
          LET bad == Violated(accounts, args') IN
          IF bad = {} THEN last'.ret = "Account created"
          ELSE last'.ret = ErrorOf(CHOOSE k \in bad : \A j \in bad : k <= j)]_vars

\* a call with an email held by a stored account, an empty name, a negative
\* balance and an unknown kind was refused for the email
C22_Witness ==
    /\ last.op = "create_account"
    /\ args # <<>>
    /\ Cardinality(Violated(accounts, args)) = 4
    /\ 2 \in Violated(accounts, args)
    /\ last.ret = "Email already exists"

\* an entry in the old format: a description, no action field
Legacy(trans) == "action" \notin DOMAIN trans

\* the phrase that begins the description of an old-format entry
LegacyText(trans) == trans.details[1]
LegacyAmount(trans) == trans.details[3]

\* the running balance after the first i entries of an old-format log,
\* replayed from zero
RECURSIVE Replayed(_, _)
Replayed(log, i) ==
    IF i = 0 THEN 0
    ELSE IF LegacyText(log[i]) = <<"Account", "created", "with", "balance">>
         THEN LegacyAmount(log[i])
         ELSE IF LegacyText(log[i]) = <<"Deposited">>
         THEN Replayed(log, i - 1) + LegacyAmount(log[i])
         ELSE Replayed(log, i - 1) - LegacyAmount(log[i])

\* C23: for a log made only of old-format entries the history replays a
\* running balance from zero: "Account created with balance $a" sets it to
\* a, "Deposited $a" adds a, "Withdrew $a" subtracts a, and the row of each
\* entry shows that action, the amount a and the balance so reached.
C23_LegacyReplay ==
    (/\ last.op = "show_transaction_history"
     /\ last.acc \in DOMAIN accounts
     /\ accounts[last.acc].transactions # <<>>
     /\ \A i \in 1..Len(accounts[last.acc].transactions) :
           /\ Legacy(accounts[last.acc].transactions[i])
           /\ ~Unrecognized(accounts[last.acc].transactions[i]))
    => LET log == accounts[last.acc].transactions IN
       /\ last.ret = "shown"
       /\ Len(last.out.rows) = Len(log)
       /\ \A i \in 1..Len(log) :
            LET row == last.out.rows[i] IN
            /\ row.timestamp = log[i].timestamp
            /\ row.balance = <<"$", Replayed(log, i)>>
            /\ CASE LegacyText(log[i]) = <<"Account", "created", "with", "balance">> ->
                       row.action = "Account created"
                       /\ row.amount = <<"$", LegacyAmount(log[i])>>
                 [] LegacyText(log[i]) = <<"Deposited">> ->
                       row.action = "Deposit"
                       /\ row.amount = <<"$", LegacyAmount(log[i])>>
                 [] LegacyText(log[i]) = <<"Withdrew">> ->
                       row.action = "Withdrawal"
                       /\ row.amount = <<"-$", LegacyAmount(log[i])>>

\* the history of the old-format log created with 100, "Deposited $40",
\* "Withdrew $30": the deposit row shows Deposit, 40, 140
C23_Witness ==
    /\ last.op = "show_transaction_history"
    /\ last.ret = "shown"
    /\ Len(accounts[last.acc].transactions) = 3
    /\ \A i \in 1..3 : Legacy(accounts[last.acc].transactions[i])
    /\ last.out.rows[2] = [timestamp |-> "2022-03-02 08:00", action |-> "Deposit",
                           amount |-> <<"$", 40>>, balance |-> <<"$", 140>>]
    /\ last.out.rows[3].balance = <<"$", 110>>

\* C26: the history report of an account gives as opening balance the
\* running balance of the first entry of its log, as closing balance the
\* balance the account holds, and as number of transactions the number of
\* entries of the log less one, the creation entry.
C26_ReportSummary ==
    (/\ last.op = "show_transaction_history"
     /\ last.acc \in DOMAIN accounts
     /\ last.ret = "shown")
    => LET acc == accounts[last.acc]
           first == acc.transactions[1]
       IN
       /\ last.out.opening =
             IF "running_balance" \in DOMAIN first THEN first.running_balance
             ELSE Replayed(acc.transactions, 1)
       /\ last.out.closing = acc.balance
       /\ last.out.total = Len(acc.transactions) - 1

\* the report of an account holding 250 whose log opens at 50 and has one
\* transaction after the creation entry
C26_Witness ==
    /\ last.op = "show_transaction_history"
    /\ last.ret = "shown"
    /\ "running_balance" \in DOMAIN accounts[last.acc].transactions[1]
    /\ accounts[last.acc].transactions[1].running_balance = 50
    /\ accounts[last.acc].balance = 250
    /\ last.out.opening = 50
    /\ last.out.closing = 250
    /\ last.out.total = 1

\* C24: of two stores restored from the same snapshot, the one that
\* persists second overwrites the snapshot with its own whole state: every
\* save of the second process leaves in the file exactly the accounts of
\* that process, so an account the first process created and saved in the
\* meantime is no longer in the file.
C24_SecondPersistOverwrites ==
    [][last'.op = "other deposit" =>
          /\ file'.state = "mapping"
          /\ DOMAIN file'.data = DOMAIN other'
          /\ \A n \in DOMAIN other' : file'.data[n] = to_dict(other'[n])
          /\ \A n \in DOMAIN accounts \ DOMAIN other' : n \notin DOMAIN file'.data]_vars

\* the lost update: both processes hold the account of the snapshot they
\* started on, the first has since created and saved a second account, and
\* after the deposit of the second process the file no longer has it
C24_Witness ==
    /\ last.op = "other deposit"
    /\ 1000000000 \in DOMAIN accounts
    /\ 1000000000 \in DOMAIN other
    /\ 1000000001 \in DOMAIN accounts
    /\ 1000000001 \notin DOMAIN other
    /\ notified = 1
    /\ file.state = "mapping"
    /\ 1000000001 \notin DOMAIN file.data
    /\ file.data[1000000000].balance = 250

\* C25: a store that is persisted and then restored by a fresh Bank holds
\* the same account numbers, and under each an account of the same variant
\* with the same balance, email, name, address fields and log, on which
\* deposit and withdraw return what they return on the original and leave
\* it in the same state.
C25_PersistRestoreSame ==
    [][(/\ last'.op = "restart"
        /\ file.state = "mapping"
        /\ DOMAIN file.data = DOMAIN accounts
        /\ \A n \in DOMAIN accounts : file.data[n] = to_dict(accounts[n]))
       => /\ DOMAIN accounts' = DOMAIN accounts
          /\ \A n \in DOMAIN accounts :
               LET a == accounts[n]
                   b == accounts'[n]
               IN
               /\ b.cls = a.cls
               /\ b.account_type = a.account_type
               /\ b.account_number = a.account_number
               /\ b.balance = a.balance
               /\ b.email = a.email
               /\ b.name = a.name
               /\ b.street_address = a.street_address
               /\ b.postal_code = a.postal_code
               /\ b.city = a.city
               /\ b.country = a.country
               /\ b.transactions = a.transactions
               /\ \A ts \in Timestamps :
                    /\ \A amount \in DepositAmounts :
                          deposit(b, ts, amount) = deposit(a, ts, amount)
                    /\ \A amount \in WithdrawAmounts :
                          withdraw(b, ts, amount) = withdraw(a, ts, amount)]_vars

\* C27: generate_account_number draws again after every collision and,
\* under fair random choice, whenever some number is no key of the store,
\* the call eventually returns, and returns a number that is no key.
C27_GenerateReturns ==
    /\ [][(last.ret = "drawing" /\ last'.acc \in DOMAIN accounts)
            => last'.ret = "drawing"]_vars
    /\ (last.ret = "drawing" /\ \E n \in GenNumbers : n \notin DOMAIN accounts)
          ~> (last.ret = "returned" /\ last.acc \notin DOMAIN accounts)

\* a call that returned a free number after at least two collisions, on a
\* store that holds all numbers but one
C27_Witness ==
    /\ last.op = "generate_account_number"
    /\ last.ret = "returned"
    /\ last.amount = MaxCounted
    /\ last.acc \notin DOMAIN accounts
    /\ Cardinality(DOMAIN accounts) = Cardinality(GenNumbers) - 1

====
